---------------------------- MODULE Spec2Model ----------------------------
(***************************************************************************)
(* go-fsm-codegen: a generator that reads a transition table (main.go,     *)
(* FSMDefinition) and emits the Go source of a guarded state machine.      *)
(*                                                                         *)
(* Strings that the generator compares, sorts or upper-cases (state names, *)
(* event names, parameter names) are sequences of byte values, so that     *)
(* slices.Sort and strings.ToUpper are computed as Go computes them.       *)
(* Strings that are only copied into the output (the machine name, the     *)
(* package name, imports, parameter types, template literals) are TLA+     *)
(* strings.  The generated text is the sequence of the blocks written to   *)
(* the strings.Builder; a block is the template's name with the arguments  *)
(* substituted into it.                                                    *)
(***************************************************************************)
EXTENDS Integers, Sequences, FiniteSets, TLC

VARIABLES
    file,           \* the content of TARGET_FILE: what the decoder yields
    def,            \* main's fsm: the FSMDefinition ParseTOML returned
    pc,             \* main's position
    generatedCode,  \* main's generatedCode (BuildText's result)
    formatted,      \* main's formatted (format.Source's result)
    destFile,       \* the content of DEST_FILE
    firstCode,      \* the generatedCode of an earlier run on the same file
    fsm,            \* an instance of the generated machine type
    lastCall,       \* the last call of a generated transition function
    count,          \* _GetNeededUintSize's argument
    stateEnumType   \* _GetNeededUintSize's result

vars == <<file, def, pc, generatedCode, formatted, destFile, firstCode,
          fsm, lastCall, count, stateEnumType>>

-----------------------------------------------------------------------------
(* Bounds *)

\* longest Source list of an event in the input corpus
MaxSources == 2

\* largest key set whose every maps.Keys order is enumerated
MaxPermuted == 3

-----------------------------------------------------------------------------
(* Go strings as byte sequences *)

Range(s) == {s[i] : i \in 1..Len(s)}

\* Go's < on strings: byte-wise, a proper prefix is smaller
RECURSIVE StrLess(_, _)
StrLess(a, b) ==
    IF b = <<>> THEN FALSE
    ELSE IF a = <<>> THEN TRUE
    ELSE IF a[1] # b[1] THEN a[1] < b[1]
    ELSE StrLess(Tail(a), Tail(b))

\* strings.ToUpper on ASCII: 'a'..'z' (97..122) map to 'A'..'Z'
ToUpper(s) == [i \in 1..Len(s) |-> IF s[i] >= 97 /\ s[i] <= 122 THEN s[i] - 32 ELSE s[i]]

\* slices.Sort: the ascending arrangement of s; an element goes to the place
\* given by the number of elements that sort before it.  (Concatenating the
\* empty sequence makes TLC compute a sequence once, not at each use.)
PlaceByRank(s, rank) == [i \in 1..Len(s) |-> s[CHOOSE j \in 1..Len(s) : rank[j] = i - 1]] \o <<>>

Sort(s) ==
    PlaceByRank(s, [j \in 1..Len(s) |->
                      Cardinality({k \in 1..Len(s) :
                                     StrLess(s[k], s[j]) \/ (s[k] = s[j] /\ k < j)})] \o <<>>)

\* every order in which a Go map may hand out the keys S
Permutations1(S) ==
    {s \in [1..Cardinality(S) -> S] : \A i, j \in 1..Cardinality(S) : i # j => s[i] # s[j]}

Reverse(s) == [i \in 1..Len(s) |-> s[Len(s) + 1 - i]]

\* s without the later occurrences of its elements
Indexed(s) == [i \in 1..Len(s) |-> <<i, s[i]>>]
Seconds(p) == [i \in 1..Len(p) |-> p[i][2]]
Dedupe(s) ==
    LET first(p) == \A j \in 1..(p[1] - 1) : s[j] # p[2]
    IN Seconds(SelectSeq(Indexed(s), first))

-----------------------------------------------------------------------------
(* The generator's pure functions (main.go) *)

\* as StateSet, without the destinations
StateSetSourcesOnly(definition) ==
    UNION {Range(definition.Events[e].Source) : e \in DOMAIN definition.Events}

\* the names referenced by the events: the keys of _GetStates's stateSet
StateSet(definition) ==
    UNION {{definition.Events[e].Destination} \cup Range(definition.Events[e].Source) :
           e \in DOMAIN definition.Events}

\* the names in the order _GetStates's loops mention them, the events visited
\* in the given order
RECURSIVE Mentions(_, _)
Mentions(definition, order) ==
    IF order = <<>> THEN <<>>
    ELSE <<definition.Events[order[1]].Destination>> \o definition.Events[order[1]].Source
         \o Mentions(definition, Tail(order))

\* the orders in which maps.Keys may hand out the keys of stateSet: every
\* order of a small key set; of a large one the orders of first insertion
\* and their reverses
KeyOrders(definition) ==
    IF Cardinality(StateSet(definition)) <= MaxPermuted
    THEN Permutations1(StateSet(definition))
    ELSE UNION {{Dedupe(Mentions(definition, o)), Reverse(Dedupe(Mentions(definition, o)))} :
                o \in Permutations1(DOMAIN definition.Events)}

\* _GetStates, given the order keys in which maps.Keys hands out stateSet:
\* the keys are appended in that order and then sorted
_GetStates(definition, keys) == Sort(<<>> \o keys)

\* "STATE_" + strings.ToUpper(s)
_GetStateName(s) == <<83, 84, 65, 84, 69, 95>> \o ToUpper(s)

\* A Go int (64 bits) as two limbs, hi * 65536 + lo with lo < 65536: TLC's
\* integers have 32 bits and math.MaxUint32 does not fit them.
ToInt(n) == [hi |-> n \div 65536, lo |-> n % 65536]

IntGreater(a, b) == a.hi > b.hi \/ (a.hi = b.hi /\ a.lo > b.lo)

MathMaxUint8 == [hi |-> 0, lo |-> 255]
MathMaxUint16 == [hi |-> 0, lo |-> 65535]
MathMaxUint32 == [hi |-> 65535, lo |-> 65535]

_GetNeededUintSize(n) ==
    IF IntGreater(n, MathMaxUint32) THEN "uint64"
    ELSE IF IntGreater(n, MathMaxUint16) THEN "uint32"
    ELSE IF IntGreater(n, MathMaxUint8) THEN "uint16"
    ELSE "uint8"

\* a piece of generated text: a literal of the generator, or an identifier
\* taken from the definition
Lit(s) == [lit |-> s, id |-> <<>>]
Id(n) == [lit |-> "", id |-> n]

GenerateHeader(builder, definition) ==
    Append(builder, [block |-> "HEADER",
                     packageName |-> definition.PackageName,
                     imports |-> (IF definition.UseSLog THEN <<"log/slog">> ELSE <<>>)
                                 \o definition.Imports])

\* as GenerateStateDefinitionPanics, were the first state also required to
\* have a successor
GenerateStateDefinitionPanicsOnOne(states) == Len(states) <= 1

\* states[0] with no state: index out of range, a run-time panic
GenerateStateDefinitionPanics(states) == Len(states) = 0

\* the constants of the const block: states[0] substituted into STATES_DEF,
\* then one line for each of the others
GenerateStateDefinition(builder, definition, states) ==
    Append(builder, [block |-> "STATES_DEF",
                     stateEnumType |-> _GetNeededUintSize(ToInt(Len(states))),
                     consts |-> <<_GetStateName(states[1])>>
                                \o [i \in 1..(Len(states) - 1) |-> _GetStateName(states[i + 1])]])

GenerateInitalizer(builder, definition) ==
    Append(builder, [block |-> "INIT",
                     name |-> definition.Name,
                     uintSize |-> _GetNeededUintSize(ToInt(Cardinality(DOMAIN definition.Events)))])

GenerateFSMDefinition(builder, definition) ==
    Append(builder, [block |-> "FSM_DEF",
                     name |-> definition.Name,
                     uintSize |-> _GetNeededUintSize(ToInt(Cardinality(DOMAIN definition.Events)))])

\* as GenerateLookup, with the ordinals counted from 1
GenerateLookupFromOne(builder, states) ==
    Append(builder, [block |-> "LOOKUP_DEF",
                     entries |-> [i \in 1..Len(states) |-> [ordinal |-> i, name |-> states[i]]]])

\* one "<ordinal>:<name>," line for each state, ordinals from 0
GenerateLookup(builder, states) ==
    Append(builder, [block |-> "LOOKUP_DEF",
                     entries |-> [i \in 1..Len(states) |-> [ordinal |-> i - 1, name |-> states[i]]]])

\* as ValidSrcs, without the last source
ValidSrcsButLast(event) ==
    [i \in 1..(Len(event.Source) - 1) |-> _GetStateName(event.Source[i])]

\* GenerateFSMEvent's validSrcs
ValidSrcs(event) == [i \in 1..Len(event.Source) |-> _GetStateName(event.Source[i])]

\* what the loop over event.Params writes to lsb: "<name>", <name>, for each
RECURSIVE ParamTags(_)
ParamTags(params) ==
    IF params = <<>> THEN <<>>
    ELSE <<Lit("quoted"), Id(params[1].Name), Id(params[1].Name)>> \o ParamTags(Tail(params))

\* GenerateFSMEvent's logging: lsb when UseSLog, else the empty string
Logging(definition, eventName, event) ==
    LET lsb == (IF definition.UseSLog
                THEN <<Lit("slog.With"), Lit("Start State"), Lit("fsm.State")>>
                ELSE <<>>)
               \o ParamTags(event.Params)
               \o (IF definition.UseSLog
                   THEN <<Lit(".Info"), Lit("User has transitioned to "), Id(_GetStateName(eventName))>>
                   ELSE <<>>)
    IN IF definition.UseSLog THEN lsb ELSE <<>>

\* the arguments ti substituted into EVENT, named by what they hold
GenerateFSMEvent(builder, definition, states, index, eventName, event) ==
    Append(builder, [block |-> "EVENT",
                     eventName |-> eventName,
                     signature |-> [i \in 1..Len(event.Params) |->
                                       <<event.Params[i].Name, event.Params[i].Type>>],
                     name |-> definition.Name,
                     validSrcs |-> ValidSrcs(event),
                     logging |-> Logging(definition, eventName, event),
                     index |-> index,
                     callParams |-> [i \in 1..Len(event.Params) |-> event.Params[i].Name],
                     destination |-> _GetStateName(event.Destination)])

\* the loop of BuildText over definition.Events, visiting the events in order
RECURSIVE EventLoop(_, _, _, _, _)
EventLoop(builder, definition, states, order, i) ==
    IF i >= Len(order) THEN builder
    ELSE EventLoop(GenerateFSMEvent(builder, definition, states, i, order[i + 1],
                                    definition.Events[order[i + 1]]),
                   definition, states, order, i + 1)

\* BuildText from GenerateHeader on, with the states _GetStates returned;
\* order is the order in which the range over definition.Events visits them
BuildFrom(definition, states, order) ==
    LET b1 == GenerateHeader(<<>>, definition)
        b2 == GenerateStateDefinition(b1, definition, states)
        b3 == GenerateInitalizer(b2, definition)
        b4 == GenerateFSMDefinition(b3, definition)
        b5 == GenerateLookup(b4, states)
    IN EventLoop(b5, definition, states, order, 0)

\* BuildText when nothing panics; keys is the order of maps.Keys
BuildText(definition, order, keys) == BuildFrom(definition, _GetStates(definition, keys), order)

\* the blocks of a generated text
StatesDefOf(text) == text[2]
InitOf(text) == text[3]
FsmDefOf(text) == text[4]
LookupOf(text) == text[5]
EventsOf(text) == SubSeq(text, 6, Len(text))

-----------------------------------------------------------------------------
(* The input corpora: the definitions the decoder may yield *)

\* the sequences over S of length at most n
SeqsUpTo(S, n) == UNION {[1..k -> S] : k \in 0..n}

\* the definitions with the given events, named "Light" in package "main"
DefsWith(eventNames, eventDefs, useSLog) ==
    {[Name |-> "Light", Imports |-> <<"fmt">>, PackageName |-> "main",
      UseSLog |-> l, Events |-> ev] :
        l \in useSLog,
        ev \in UNION {[D -> eventDefs] : D \in SUBSET eventNames}}

\* state names "A", "a", "ab"; event names "Go", "go"
StatePool == {<<65>>, <<97>>, <<97, 98>>}
EventPool == {<<71, 111>>, <<103, 111>>}

GenDefs ==
    DefsWith(EventPool,
             [Source : SeqsUpTo(StatePool, MaxSources), Destination : StatePool, Params : {<<>>}],
             {FALSE})

\* parameters "n int", "why string"; states "idle", "run"; events "start", "stop"
ParamPool == {[Name |-> <<110>>, Type |-> "int"], [Name |-> <<119, 104, 121>>, Type |-> "string"]}
LogStatePool == {<<105, 100, 108, 101>>, <<114, 117, 110>>}
LogEventPool == {<<115, 116, 97, 114, 116>>, <<115, 116, 111, 112>>}

LogDefs ==
    DefsWith(LogEventPool,
             [Source : [1..1 -> LogStatePool], Destination : LogStatePool,
              Params : SeqsUpTo(ParamPool, 2)],
             BOOLEAN)

\* the i-th of a list of distinct five-letter names over "a".."d"
WideName(i) ==
    <<97 + ((i \div 256) % 4), 97 + ((i \div 64) % 4), 97 + ((i \div 16) % 4),
      97 + ((i \div 4) % 4), 97 + (i % 4)>>

\* one event "go" from k states to a further one, k around math.MaxUint8
WideDefs ==
    {[Name |-> "Light", Imports |-> <<"fmt">>, PackageName |-> "main", UseSLog |-> l,
      Events |-> [e \in {<<103, 111>>} |->
                    [Source |-> [i \in 1..k |-> WideName(i)],
                     Destination |-> WideName(0),
                     Params |-> <<>>]]] :
        l \in BOOLEAN, k \in 250..262}

\* the machines whose transitions are exercised: as GenDefs, with the
\* destinations "a" and "ab"
FsmDefs ==
    DefsWith(EventPool,
             [Source : SeqsUpTo(StatePool, MaxSources), Destination : {<<97>>, <<97, 98>>},
              Params : {<<>>}],
             {FALSE})

\* TARGET_FILE: absent, not decodable, or decoding to a definition
FilesOf(defs) ==
    {[kind |-> "missing"], [kind |-> "malformed"]} \cup {[kind |-> "toml", fsm |-> d] : d \in defs}

-----------------------------------------------------------------------------
(* main *)

ZeroDef == [Name |-> "", Imports |-> <<>>, PackageName |-> "", UseSLog |-> FALSE,
            Events |-> [e \in {} |-> <<>>]]

NoFile == [exists |-> FALSE, content |-> <<>>]
NoFsm == [made |-> FALSE, State |-> 0]
NoCall == [made |-> FALSE, event |-> <<>>, from |-> 0, rejected |-> FALSE, writes |-> 0]

InitWith(files) ==
    /\ file \in files
    /\ def = ZeroDef
    /\ pc = "start"
    /\ generatedCode = <<>>
    /\ formatted = <<>>
    /\ destFile = NoFile
    /\ firstCode = <<>>
    /\ fsm = NoFsm
    /\ lastCall = NoCall
    /\ count = ToInt(0)
    /\ stateEnumType = ""

Init == InitWith(FilesOf(GenDefs))
InitLog == InitWith(FilesOf(LogDefs))
InitWide == InitWith(FilesOf(WideDefs))

\* os.Open(TARGET_FILE)
Open ==
    /\ pc = "start"
    /\ pc' = IF file.kind = "missing" THEN "panic_open" ELSE "opened"
    /\ UNCHANGED <<file, def, generatedCode, formatted, destFile, firstCode,
                   fsm, lastCall, count, stateEnumType>>

\* ParseTOML(f)
Parse ==
    /\ pc = "opened"
    /\ IF file.kind = "malformed"
       THEN pc' = "panic_parse" /\ def' = def
       ELSE pc' = "parsed" /\ def' = file.fsm
    /\ UNCHANGED <<file, generatedCode, formatted, destFile, firstCode,
                   fsm, lastCall, count, stateEnumType>>

\* BuildText(fsm): the two map traversals take any order
Build ==
    /\ pc = "parsed"
    /\ \E order \in Permutations1(DOMAIN def.Events), keys \in KeyOrders(def) :
          IF GenerateStateDefinitionPanics(_GetStates(def, keys))
          THEN pc' = "panic_build" /\ generatedCode' = generatedCode
          ELSE pc' = "built" /\ generatedCode' = BuildText(def, order, keys)
    /\ UNCHANGED <<file, def, formatted, destFile, firstCode,
                   fsm, lastCall, count, stateEnumType>>

\* format.Source: the formatter accepts the text or rejects it
Format ==
    /\ pc = "built"
    /\ \/ pc' = "formatted" /\ formatted' = generatedCode
       \/ pc' = "panic_format" /\ formatted' = formatted
    /\ UNCHANGED <<file, def, generatedCode, destFile, firstCode,
                   fsm, lastCall, count, stateEnumType>>

\* os.WriteFile(DEST_FILE, formatted): on an error the file is as it was or
\* was truncated
Write ==
    /\ pc = "formatted"
    /\ \/ pc' = "done" /\ destFile' = [exists |-> TRUE, content |-> formatted]
       \/ pc' = "panic_write" /\ destFile' \in {destFile, [exists |-> TRUE, content |-> <<>>]}
    /\ UNCHANGED <<file, def, generatedCode, formatted, firstCode,
                   fsm, lastCall, count, stateEnumType>>

\* the program is run once more on the same TARGET_FILE
Rerun ==
    /\ pc = "done"
    /\ firstCode = <<>>
    /\ firstCode' = generatedCode
    /\ pc' = "start"
    /\ def' = ZeroDef
    /\ generatedCode' = <<>>
    /\ formatted' = <<>>
    /\ UNCHANGED <<file, destFile, fsm, lastCall, count, stateEnumType>>

Next == Open \/ Parse \/ Build \/ Format \/ Write
NextRerun == Open \/ Parse \/ Build \/ Format \/ Write \/ Rerun

Spec == Init /\ [][Next]_vars
SpecLog == InitLog /\ [][Next]_vars
SpecWide == InitWide /\ [][Next]_vars
SpecRerun == Init /\ [][NextRerun]_vars

-----------------------------------------------------------------------------
(* _GetNeededUintSize on its own *)

\* counts around math.MaxUint8, math.MaxUint16 and math.MaxUint32
WidthCounts ==
    {[hi |-> h, lo |-> l] :
        h \in {0, 1, 2, 65535, 65536},
        l \in (0..2) \cup (253..258) \cup (65533..65535)}

InitWidth ==
    /\ file = [kind |-> "missing"]
    /\ def = ZeroDef
    /\ pc = "start"
    /\ generatedCode = <<>>
    /\ formatted = <<>>
    /\ destFile = NoFile
    /\ firstCode = <<>>
    /\ fsm = NoFsm
    /\ lastCall = NoCall
    /\ count \in WidthCounts
    /\ stateEnumType = ""

GetNeededUintSize ==
    /\ stateEnumType = ""
    /\ stateEnumType' = _GetNeededUintSize(count)
    /\ UNCHANGED <<file, def, pc, generatedCode, formatted, destFile, firstCode,
                   fsm, lastCall, count>>

SpecWidth == InitWidth /\ [][GetNeededUintSize]_vars

-----------------------------------------------------------------------------
(* The generated machine: the text of DEST_FILE, compiled and run.  The      *)
(* templates STATES_DEF and EVENT are not part of main.go; what they make of *)
(* their arguments is taken from the specification: a constant block that    *)
(* numbers the constants from 0, and a transition function that rejects the  *)
(* call unless the current state is one of validSrcs and otherwise assigns   *)
(* the destination constant to the current-state field.                      *)

\* a Go const block may declare a name once
Compiles(text) ==
    \A i, j \in 1..Len(StatesDefOf(text).consts) :
        i # j => StatesDefOf(text).consts[i] # StatesDefOf(text).consts[j]

\* the value of a constant of the state enumeration
ConstValue(text, symbol) ==
    (CHOOSE i \in 1..Len(StatesDefOf(text).consts) : StatesDefOf(text).consts[i] = symbol) - 1

\* the guard of a transition function: the current state is one of validSrcs
GuardAdmits(text, block, state) ==
    \E k \in 1..Len(block.validSrcs) : ConstValue(text, block.validSrcs[k]) = state

InitFsm == InitWith(FilesOf(FsmDefs))

\* a machine is made, in any of its states
NewFsm ==
    /\ pc = "done"
    /\ ~fsm.made
    /\ Compiles(destFile.content)
    /\ \E s \in 0..(Len(StatesDefOf(destFile.content).consts) - 1) :
          fsm' = [made |-> TRUE, State |-> s]
    /\ UNCHANGED <<file, def, pc, generatedCode, formatted, destFile, firstCode,
                   lastCall, count, stateEnumType>>

\* the transition function of the i-th event block is called
Call(i) ==
    /\ fsm.made
    /\ i \in 1..Len(EventsOf(destFile.content))
    /\ LET block == EventsOf(destFile.content)[i]
       IN IF GuardAdmits(destFile.content, block, fsm.State)
          THEN /\ fsm' = [fsm EXCEPT !.State = ConstValue(destFile.content, block.destination)]
               /\ lastCall' = [made |-> TRUE, event |-> block.eventName, from |-> fsm.State,
                               rejected |-> FALSE, writes |-> 1]
          ELSE /\ fsm' = fsm
               /\ lastCall' = [made |-> TRUE, event |-> block.eventName, from |-> fsm.State,
                               rejected |-> TRUE, writes |-> 0]
    /\ UNCHANGED <<file, def, pc, generatedCode, formatted, destFile, firstCode,
                   count, stateEnumType>>

NextFsm == Open \/ Parse \/ Build \/ Format \/ Write \/ NewFsm \/ \E i \in 1..Cardinality(EventPool) : Call(i)

SpecFsm == InitFsm /\ [][NextFsm]_vars

-----------------------------------------------------------------------------
(* Properties of the generator *)

\* the names of the definition's Source lists and Destination fields
Referenced(definition) ==
    {definition.Events[e].Destination : e \in DOMAIN definition.Events}
    \cup UNION {{definition.Events[e].Source[i] : i \in 1..Len(definition.Events[e].Source)} :
                e \in DOMAIN definition.Events}

Ascending(names) == \A i, j \in 1..Len(names) : i < j => StrLess(names[i], names[j])

HasText == generatedCode # <<>>

\* C1: two runs on the same input produce the same text, whatever the order
\* in which each run traverses the event mapping.
C1_Deterministic == (HasText /\ firstCode # <<>>) => generatedCode = firstCode

\* C2: the transition-function blocks are in ascending order of event name,
\* one for each event, and the ordinal of each is its position in that order.
C2_EventsSortedByName ==
    HasText =>
        LET events == EventsOf(generatedCode)
        IN /\ {events[i].eventName : i \in 1..Len(events)} = DOMAIN def.Events
           /\ Len(events) = Cardinality(DOMAIN def.Events)
           /\ \A i \in 1..Len(events) : events[i].index = i - 1
           /\ Ascending([i \in 1..Len(events) |-> events[i].eventName])

\* states holds exactly the given names, each once, in strictly ascending order
ExactlyAscending(states, names) ==
    /\ Range(states) = names
    /\ Len(states) = Cardinality(names)
    /\ Ascending(states)

\* C3: whatever order the keys are handed out in, _GetStates returns exactly
\* the names of all Source lists and Destination fields, each once, in
\* strictly ascending order; the generated lookup table lists those states.
C3_StateCompleteness ==
    /\ \A keys \in KeyOrders(def) : ExactlyAscending(_GetStates(def, keys), Referenced(def))
    /\ HasText =>
          {LookupOf(generatedCode).entries[i].name :
              i \in 1..Len(LookupOf(generatedCode).entries)} = Referenced(def)

\* a text was generated from two events that mention all three names, one of
\* them twice in one Source list
C3_Witness ==
    /\ pc = "built"
    /\ Cardinality(Referenced(def)) = 3
    /\ Cardinality(DOMAIN def.Events) = 2
    /\ \E e \in DOMAIN def.Events :
          /\ Len(def.Events[e].Source) = 2
          /\ def.Events[e].Source[1] = def.Events[e].Source[2]

\* C6: with no event the run stops in GenerateStateDefinition, no text is
\* returned and nothing is written; with an event it never stops there.
C6_EmptyEventsFatal ==
    /\ DOMAIN def.Events = {} =>
          /\ pc \in {"start", "opened", "parsed", "panic_open", "panic_parse", "panic_build"}
          /\ generatedCode = <<>>
          /\ destFile = NoFile
    /\ pc = "panic_build" => DOMAIN def.Events = {}

\* a definition without events was decoded and the run has stopped
C6_Witness == pc = "panic_build" /\ file.kind = "toml" /\ def = file.fsm

\* C7: the i-th constant of the state enumeration is the mangled name of the
\* lookup table's i-th entry, whose ordinal is i - 1; the entries' names
\* strictly ascend, so ordinal 0 is the smallest state name.
C7_OrdinalAgreement ==
    HasText =>
        LET consts == StatesDefOf(generatedCode).consts
            entries == LookupOf(generatedCode).entries
        IN /\ Len(consts) = Cardinality(Referenced(def))
           /\ Len(entries) = Cardinality(Referenced(def))
           /\ \A i \in 1..Len(entries) :
                 /\ entries[i].ordinal = i - 1
                 /\ consts[i] = <<83, 84, 65, 84, 69, 95>> \o ToUpper(entries[i].name)
           /\ Ascending([i \in 1..Len(entries) |-> entries[i].name])
           /\ \A n \in Referenced(def) : n = entries[1].name \/ StrLess(entries[1].name, n)

\* a text with three states was generated
C7_Witness == pc = "built" /\ Len(LookupOf(generatedCode).entries) = 3

\* C8: with UseSLog the log call of an event's block is tagged with the
\* starting state and each parameter in declared order, and its message names
\* the event's destination; without UseSLog the block has no logging text.
C8_LoggingNamesDestination ==
    HasText =>
        \A i \in 1..Len(EventsOf(generatedCode)) :
            LET b == EventsOf(generatedCode)[i]
                e == def.Events[b.eventName]
            IN IF def.UseSLog
               THEN b.logging =
                       <<Lit("slog.With"), Lit("Start State"), Lit("fsm.State")>>
                       \o ParamTags(e.Params)
                       \o <<Lit(".Info"), Lit("User has transitioned to "),
                            Id(_GetStateName(e.Destination))>>
               ELSE b.logging = <<>>

\* C9: the machine-type declaration gets the width for the number of states
\* and the constructor the width for the number of events.
C9_WidthsByBlock ==
    HasText =>
        /\ FsmDefOf(generatedCode).uintSize =
              _GetNeededUintSize(ToInt(Cardinality(Referenced(def))))
        /\ InitOf(generatedCode).uintSize =
              _GetNeededUintSize(ToInt(Cardinality(DOMAIN def.Events)))

\* C10: distinct derived states have distinct mangled symbols, so the
\* constants of the state enumeration are pairwise distinct.
C10_ManglingInjective ==
    HasText =>
        /\ \A a, b \in Referenced(def) : a # b => _GetStateName(a) # _GetStateName(b)
        /\ \A i, j \in 1..Len(StatesDefOf(generatedCode).consts) :
              i # j => StatesDefOf(generatedCode).consts[i] # StatesDefOf(generatedCode).consts[j]

\* the bits of a Go unsigned type
Bits(type) ==
    CASE type = "uint8" -> 8 [] type = "uint16" -> 16 [] type = "uint32" -> 32
      [] type = "uint64" -> 64 [] OTHER -> 0

\* 2^w > n - 1, that is n <= 2^w, for n in limbs and w of the ladder
Holds(w, n) ==
    CASE w = 8 -> n.hi = 0 /\ n.lo <= 256
      [] w = 16 -> n.hi = 0 \/ (n.hi = 1 /\ n.lo = 0)
      [] w = 32 -> n.hi < 65536 \/ (n.hi = 65536 /\ n.lo = 0)
      [] OTHER -> TRUE

\* C4: the width selected for n is one of 8, 16, 32, 64, satisfies
\* 2^w > n - 1, and no smaller width of the ladder does.
C4_WidthMinimal ==
    stateEnumType # "" =>
        /\ Bits(stateEnumType) \in {8, 16, 32, 64}
        /\ Holds(Bits(stateEnumType), count)
        /\ \A v \in {8, 16, 32, 64} : v < Bits(stateEnumType) => ~Holds(v, count)

\* the state's name, by its ordinal
NameOf(definition, ordinal) ==
    CHOOSE n \in Referenced(definition) :
        Cardinality({m \in Referenced(definition) : StrLess(m, n)}) = ordinal

\* C5: a call of event e's transition function in state s sets the current
\* state to e's destination, with one assignment, when s is one of e's
\* sources, and otherwise is rejected and leaves the current state as it was.
C5_Guard ==
    lastCall.made =>
        LET e == def.Events[lastCall.event]
        IN IF NameOf(def, lastCall.from) \in Range(e.Source)
           THEN /\ ~lastCall.rejected
                /\ NameOf(def, fsm.State) = e.Destination
                /\ lastCall.writes = 1
           ELSE /\ lastCall.rejected
                /\ fsm.State = lastCall.from
                /\ lastCall.writes = 0

\* a call was accepted from the second of two sources and changed the state
C5_Witness ==
    /\ lastCall.made
    /\ ~lastCall.rejected
    /\ Len(def.Events[lastCall.event].Source) = 2
    /\ def.Events[lastCall.event].Source[1] # def.Events[lastCall.event].Source[2]
    /\ NameOf(def, lastCall.from) = def.Events[lastCall.event].Source[2]
    /\ fsm.State # lastCall.from

=============================================================================
